---- MODULE Spec2Model ----
(***************************************************************************)
(* The two embedded-interpreter launchers of angelos:                      *)
(*   src/angelos_main.c   main() of the "angelos" executable               *)
(*   src/logo_main.c      main() of the "logo" executable                  *)
(* Each main() is a straight line of four calls followed by the closing    *)
(* brace of main.  No return value is captured and nothing is tested.      *)
(* The statement `start()` is written without its terminating semicolon in *)
(* both files; the model reads the line as the call statement it stands    *)
(* for.                                                                    *)
(***************************************************************************)
EXTENDS Integers, Sequences, FiniteSets, TLC

VARIABLES variant, argc, pc, inittab, runtime, calls,
          regReturn, initOutcome, startOutcome, exit

vars == <<variant, argc, pc, inittab, runtime, calls,
          regReturn, initOutcome, startOutcome, exit>>

(* ------------------------------ bounds --------------------------------- *)

\* Largest argument count the process is started with.
MaxArgc == 3

(* --------------------------- the two programs -------------------------- *)

Variants == {"angelos", "logo"}

\* First argument of PyImport_AppendInittab in each file.
ModuleName(v) == IF v = "angelos" THEN "angelos" ELSE "logo"

\* Second argument of PyImport_AppendInittab in each file.
Initializer(v) == IF v = "angelos" THEN "PyInit_angelos" ELSE "PyInit_angelos"

\* Mutants of the statement list of main().
BodyInitFirst ==
    <<"Py_Initialize", "PyImport_AppendInittab", "start", "Py_Finalize">>
BodyNoFinalize ==
    <<"PyImport_AppendInittab", "Py_Initialize", "start">>
BodyStartFirst ==
    <<"PyImport_AppendInittab", "start", "Py_Initialize", "Py_Finalize">>
BodyInitTwice ==
    <<"PyImport_AppendInittab", "Py_Initialize", "Py_Initialize", "start",
      "Py_Finalize">>
BodyStartTwice ==
    <<"PyImport_AppendInittab", "Py_Initialize", "start", "start",
      "Py_Finalize">>
BodyFinalizeEarly ==
    <<"PyImport_AppendInittab", "Py_Initialize", "Py_Finalize", "start">>

\* The statements of main(), lines 5 to 8 of both files, in program order.
Body ==
    <<"PyImport_AppendInittab", "Py_Initialize", "start", "Py_Finalize">>

\* The statement the program counter points at; "}" past the last one.
Stmt == IF pc \in 1..Len(Body) THEN Body[pc] ELSE "}"

\* Value main() returns when control reaches its closing brace
\* (C99 5.1.2.2.3: reaching the } of main returns 0).
MainFallOffStatus == 0

\* Status of a process ended by abort() (128 + SIGABRT), the way
\* Py_Initialize ends the process on a fatal initialization error.
AbortStatus == 128 + 6

\* What the call start() can report to its caller: a normal return, or an
\* application error.  main() discards whatever comes back.
StartOutcomes == {"ok", "error"}

\* Program counter after the call to start(): the next statement, whatever
\* the outcome, since main() neither captures nor tests the result.
StartSkipsOnError(p, outcome) ==
    IF outcome = "error" THEN Len(Body) + 1 ELSE p + 1
AfterStart(p, outcome) == p + 1

Running == exit = <<>>

(* ------------------------------ state ---------------------------------- *)

Init ==
    /\ variant \in Variants
    /\ argc \in 1..MaxArgc
    /\ pc = 1
    /\ inittab = <<>>
    /\ runtime = "uninitialized"
    /\ calls = <<>>
    /\ regReturn = <<>>
    /\ initOutcome = "none"
    /\ startOutcome = "none"
    /\ exit = <<>>

(* ------------------------------ actions -------------------------------- *)

\* PyImport_AppendInittab(name, initfunc): appends the pair to the table of
\* built-in modules and returns 0, or returns -1 and leaves the table alone
\* when the table cannot be grown.  main() discards the return value.
AppendInittab ==
    /\ Running
    /\ Stmt = "PyImport_AppendInittab"
    /\ \E ok \in BOOLEAN :
          /\ inittab' = IF ok
                          THEN Append(inittab,
                                 <<ModuleName(variant), Initializer(variant)>>)
                          ELSE inittab
          /\ regReturn' = Append(regReturn, IF ok THEN 0 ELSE -1)
    /\ calls' = Append(calls, "PyImport_AppendInittab")
    /\ pc' = pc + 1
    /\ UNCHANGED <<variant, argc, runtime, initOutcome, startOutcome, exit>>

\* Py_Initialize(): void.  Brings the runtime up and returns; a no-op when
\* the runtime is already up; on failure it does not return, the process is
\* ended by a fatal error.
PyInitialize ==
    /\ Running
    /\ Stmt = "Py_Initialize"
    /\ calls' = Append(calls, "Py_Initialize")
    /\ \/ /\ runtime' = "running"
          /\ initOutcome' = "ok"
          /\ pc' = pc + 1
          /\ exit' = exit
       \/ /\ runtime # "running"
          /\ runtime' = runtime
          /\ initOutcome' = "fatal"
          /\ pc' = pc
          /\ exit' = <<AbortStatus>>
    /\ UNCHANGED <<variant, argc, inittab, regReturn, startOutcome>>

\* start(): the application's entry point, called as an expression
\* statement; its outcome is recorded but steers nothing in main().
Start ==
    /\ Running
    /\ Stmt = "start"
    /\ calls' = Append(calls, "start")
    /\ \E outcome \in StartOutcomes :
          /\ startOutcome' = outcome
          /\ pc' = AfterStart(pc, outcome)
    /\ UNCHANGED <<variant, argc, inittab, runtime, regReturn, initOutcome,
                   exit>>

\* Py_Finalize(): void.  Tears the runtime down; a no-op when it is not up.
PyFinalize ==
    /\ Running
    /\ Stmt = "Py_Finalize"
    /\ calls' = Append(calls, "Py_Finalize")
    /\ runtime' = IF runtime = "running" THEN "finalized" ELSE runtime
    /\ pc' = pc + 1
    /\ UNCHANGED <<variant, argc, inittab, regReturn, initOutcome,
                   startOutcome, exit>>

\* Control reaches the closing brace of main(): the process exits.
ReturnFromMain ==
    /\ Running
    /\ Stmt = "}"
    /\ exit' = <<MainFallOffStatus>>
    /\ UNCHANGED <<variant, argc, pc, inittab, runtime, calls, regReturn,
                   initOutcome, startOutcome>>

Next ==
    \/ AppendInittab
    \/ PyInitialize
    \/ Start
    \/ PyFinalize
    \/ ReturnFromMain

Spec == Init /\ [][Next]_vars

\* A sequential program always executes its next statement.
FairSpec == Spec /\ WF_vars(Next)

(* --------------------------- call history ------------------------------ *)

\* Positions in the call history at which the named function was called.
Idx(name) == {i \in 1..Len(calls) : calls[i] = name}

Count(name) == Cardinality(Idx(name))

Exited == exit # <<>>

(* ------------------------------ claims --------------------------------- *)

\* C1: in every execution of either launcher the registration call comes
\* before the interpreter initialization call, and no registration call is
\* made once the interpreter has been initialized.
C1_RegisterBeforeInitialize ==
    \A i \in Idx("Py_Initialize") :
        /\ \E j \in Idx("PyImport_AppendInittab") : j < i
        /\ \A j \in Idx("PyImport_AppendInittab") : j < i

C1_Witness ==
    /\ Count("PyImport_AppendInittab") = 1
    /\ Count("Py_Initialize") = 1
    /\ runtime = "running"

\* C2: whenever start() has been invoked and returned normally the
\* interpreter is afterwards finalized, by exactly one finalization call;
\* and a finalization call is never made without an initialization call
\* before it.
C2_FinalizedOnceAfterStart ==
    /\ [](/\ Count("Py_Finalize") <= 1
          /\ \A i \in Idx("Py_Finalize") :
                \E j \in Idx("Py_Initialize") : j < i
          /\ runtime = "finalized" => initOutcome = "ok"
          /\ (Exited /\ startOutcome = "ok") =>
                (Count("Py_Finalize") = 1 /\ runtime = "finalized"))
    /\ ((startOutcome = "ok") ~>
            (runtime = "finalized" /\ Count("Py_Finalize") = 1))

C2_Witness ==
    /\ startOutcome = "ok"
    /\ runtime = "finalized"
    /\ Count("Py_Finalize") = 1
    /\ exit = <<0>>

\* C3: when start() reports a failure the launcher still finalizes the
\* interpreter before the process exits; no execution ends with the runtime
\* initialized and not finalized.
C3_FinalizedOnStartFailure ==
    /\ Exited => runtime # "running"
    /\ (Exited /\ startOutcome = "error") =>
          /\ runtime = "finalized"
          /\ \E i \in Idx("Py_Finalize") : \A j \in Idx("start") : j < i

C3_Witness ==
    /\ Exited
    /\ startOutcome = "error"
    /\ runtime = "finalized"

\* C4: when start() reports an application error the exit status of the
\* process is non-zero.
C4_ErrorExitNonZero ==
    (Exited /\ startOutcome = "error") => exit[1] # 0

\* C5: after a failed module registration the launcher neither initializes
\* the interpreter nor calls start().
C5_AbortOnRegistrationFailure ==
    (\E i \in 1..Len(regReturn) : regReturn[i] = -1) =>
        (Count("Py_Initialize") = 0 /\ Count("start") = 0)

\* C6: when interpreter initialization fails the process has exited with a
\* non-zero status, start() was not invoked and finalize was not called.
C6_InitFailureIsFatal ==
    initOutcome = "fatal" =>
        /\ Exited
        /\ exit[1] # 0
        /\ Count("start") = 0
        /\ Count("Py_Finalize") = 0
        /\ runtime = "uninitialized"

C6_Witness ==
    /\ initOutcome = "fatal"
    /\ Exited
    /\ Count("Py_Initialize") = 1

\* One step of the runtime lifecycle: it stays where it is or moves one
\* state forward.
LifecycleForward ==
    \/ runtime' = runtime
    \/ runtime = "uninitialized" /\ runtime' = "running"
    \/ runtime = "running" /\ runtime' = "finalized"

\* C7: initialization is called at most once per process, and the lifecycle
\* only moves forward uninitialized -> running -> finalized.
C7_InitializeAtMostOnce ==
    /\ [](Count("Py_Initialize") <= 1)
    /\ [][LifecycleForward]_vars

C7_Witness ==
    /\ runtime = "finalized"
    /\ Count("Py_Initialize") = 1
    /\ Exited

\* Every call of start() lies strictly after an initialization call and
\* strictly before every finalization call.
StartBetweenInitAndFinalize ==
    \A i \in Idx("start") :
        /\ \E j \in Idx("Py_Initialize") : j < i
        /\ \A j \in Idx("Py_Finalize") : i < j

\* C8 as stated: the start hook is invoked exactly once per launcher run,
\* after initialization and before finalization.
C8_StartExactlyOncePerRun ==
    /\ Exited => Count("start") = 1
    /\ StartBetweenInitAndFinalize

\* C8 amended: the start hook is invoked at most once per launcher run, and
\* exactly once in every run whose interpreter initialization returns; the
\* invocation lies after initialization and before finalization.
C8_StartOnceWhenInitialized ==
    /\ Count("start") <= 1
    /\ (Exited /\ initOutcome = "ok") => Count("start") = 1
    /\ (Exited /\ initOutcome # "ok") => Count("start") = 0
    /\ StartBetweenInitAndFinalize
    /\ \A i \in Idx("start") : i = Len(calls) => runtime = "running"

C8_Witness ==
    /\ Exited
    /\ Count("start") = 1
    /\ runtime = "finalized"

\* C9: for both launchers, when registration and initialization succeed and
\* start() returns normally, the run performs register, initialize, start,
\* finalize in that order and the process exits with status 0.
C9_NormalRun ==
    (/\ Exited
     /\ regReturn = <<0>>
     /\ initOutcome = "ok"
     /\ startOutcome = "ok") =>
        /\ calls = <<"PyImport_AppendInittab", "Py_Initialize", "start",
                     "Py_Finalize">>
        /\ \E i \in 1..Len(inittab) : inittab[i][1] = variant
        /\ exit = <<0>>

C9_Witness ==
    /\ Exited
    /\ variant = "logo"
    /\ regReturn = <<0>>
    /\ initOutcome = "ok"
    /\ startOutcome = "ok"
    /\ Len(calls) = 4

\* The initializer exported by a variant's own module.
OwnInitializer(v) == IF v = "angelos" THEN "PyInit_angelos" ELSE "PyInit_logo"

\* C10: each launcher registers its own name with its own module's
\* initializer, never with the initializer of the other variant.
C10_OwnNameOwnInitializer ==
    \A i \in 1..Len(inittab) :
        inittab[i] = <<variant, OwnInitializer(variant)>>

====
